---- MODULE Spec2Model ----
(***************************************************************************)
(* OpenAstroids: the per-frame transition function `step`, the lifecycle   *)
(* operations around it and the driver that calls them.                    *)
(*                                                                         *)
(* Numbers.  The program computes in IEEE doubles; this development        *)
(* computes in fixed point:                                                *)
(*   lengths      1/10 px            (Unit per px)                         *)
(*   velocities   1/10 px per second                                       *)
(*   angles       milliradians                                             *)
(*   times        milliseconds                                             *)
(*   unit vectors thousandths        (Milli)                               *)
(* so that  pos + vel * dt  is  pos + (vel * dtMs) \div 1000.              *)
(* The generator keeps the structure of Mulberry32 (an additive counter    *)
(* followed by a xor/shift/multiply mix, the result scaled into [0,1))      *)
(* at a reduced word width of RngBits bits.                                *)
(***************************************************************************)
EXTENDS Integers, Sequences, FiniteSets, TLC

(* ------------------------------------------------------------------ *)
(* units                                                              *)
(* ------------------------------------------------------------------ *)
Unit == 10
Milli == 1000

(* ------------------------------------------------------------------ *)
(* game.ts constants                                                  *)
(* ------------------------------------------------------------------ *)
SHIP_RADIUS == 14 * Unit
SHIP_TURN_RATE == 4600
SHIP_THRUST == 520 * Unit
SHIP_FRICTION == 985
SHIP_MAX_SPEED == 560 * Unit

BULLET_SPEED == 820 * Unit
BULLET_RADIUS == 25
BULLET_COOLDOWN_MS == 180
BULLET_LIFETIME_MS == 900

ASTEROID_BASE_SPEED == 70 * Unit
ASTEROID_LARGE_RADIUS == 52 * Unit
ASTEROID_MED_RADIUS == 32 * Unit
ASTEROID_SMALL_RADIUS == 18 * Unit

SHIP_INVINCIBLE_MS == 1400
HYPERSPACE_INVINCIBLE_MS == 520

SCORE_LARGE == 20
SCORE_MED == 50
SCORE_SMALL == 100

DEFAULT_LIVES == 3

MUZZLE_OFFSET == 8 * Unit
SPAWN_AVOID_RADIUS == 180 * Unit
MAX_DT_MS == 50
VERTEX_COUNT == 12
EXPLOSION_ASTEROID_MS == 320
EXPLOSION_SHIP_MS == 520

(* ------------------------------------------------------------------ *)
(* math.ts                                                            *)
(* ------------------------------------------------------------------ *)
PI == 3142
TAU == 2 * PI

(* `const x = e; ...`: F applied to the value of e *)
Let1(e, F(_)) == CHOOSE r \in {F(x) : x \in {e}} : TRUE

Min(a, b) == IF a < b THEN a ELSE b
Max(a, b) == IF a > b THEN a ELSE b

(* variant of clamp without the lower bound *)
clamp_noFloor(value, lo, hi) == Min(hi, value)

clamp(value, lo, hi) == Max(lo, Min(hi, value))

Vec(x, y) == [x |-> x, y |-> y]

add(a, b) == Vec(a.x + b.x, a.y + b.y)

(* mul(v, s) for a scalar s given as the fraction num / den *)
mul(v, num, den) == Vec((v.x * num) \div den, (v.y * num) \div den)

(* Math.sin on [0, PI], in thousandths (Bhaskara's rational form) *)
SinHalf(x) ==
  LET p == (x * (PI - x)) \div Milli
  IN  (16 * Milli * p) \div (((5 * PI * PI) \div Milli) - 4 * p)

(* Math.sin of every angle of [0, TAU), in thousandths *)
sinTable == [r \in 0..(TAU - 1) |-> IF r <= PI THEN SinHalf(r) ELSE -SinHalf(r - PI)]

Sin(a) == sinTable[a % TAU]

Cos(a) == Sin(a + PI \div 2)

fromAngle(angleRad) == Vec(Cos(angleRad), Sin(angleRad))

wrapPosition(pos, width, height) ==
  LET x1 == IF pos.x < 0 THEN pos.x + width ELSE pos.x
      x2 == IF x1 >= width THEN x1 - width ELSE x1
      y1 == IF pos.y < 0 THEN pos.y + height ELSE pos.y
      y2 == IF y1 >= height THEN y1 - height ELSE y1
  IN  Vec(x2, y2)

(* the square of Math.hypot(a.x - b.x, a.y - b.y) *)
dist2(a, b) == (a.x - b.x) * (a.x - b.x) + (a.y - b.y) * (a.y - b.y)

(* dist(a, b) <= r   and   dist(a, b) < r   for r >= 0 *)
distLeq(a, b, r) == dist2(a, b) <= r * r
distLess(a, b, r) == dist2(a, b) < r * r

RECURSIVE IsqrtFrom(_, _)
IsqrtFrom(n, g0) ==
  Let1(g0, LAMBDA g : IF g * g <= n THEN g ELSE IsqrtFrom(n, (g + n \div g) \div 2))

(* floor of Math.hypot(v.x, v.y) *)
hypot(v) ==
  Let1(v.x * v.x + v.y * v.y, LAMBDA n :
    IF n = 0 THEN 0 ELSE IsqrtFrom(n, Max(Max(v.x, -v.x), Max(v.y, -v.y)) * 2))

(* ------------------------------------------------------------------ *)
(* random.ts                                                          *)
(* ------------------------------------------------------------------ *)
RngBits == 8
RngMod == 2 ^ RngBits
RngInc == 109

RECURSIVE BitXor(_, _, _)
BitXor(a, b, n) ==
  IF n = 0 THEN 0
  ELSE ((a + b) % 2) + 2 * BitXor(a \div 2, b \div 2, n - 1)

RECURSIVE BitOr(_, _, _)
BitOr(a, b, n) ==
  IF n = 0 THEN 0
  ELSE (IF a % 2 = 1 \/ b % 2 = 1 THEN 1 ELSE 0) + 2 * BitOr(a \div 2, b \div 2, n - 1)

Xor(a, b) == BitXor(a, b, RngBits)
Or(a, b) == BitOr(a, b, RngBits)
imul(a, b) == (a * b) % RngMod

(* the output mix of the generator for counter value t *)
rngMix(t) ==
  Let1(imul(Xor(t, t \div 16), Or(t, 1)), LAMBDA x1 :
  Let1(Xor(x1, (x1 + imul(Xor(x1, x1 \div 4), Or(x1, 61))) % RngMod), LAMBDA x2 :
    Xor(x2, x2 \div 8)))

(* createRng(seed): the generator's counter; a draw advances it *)
createRng(seed) == seed % RngMod
rngAdvance(t) == (t + RngInc) % RngMod
(* the draw made from each counter value, as a numerator over RngMod *)
rngTable == [t \in 0..(RngMod - 1) |-> rngMix(rngAdvance(t))]
rngValue(t) == rngTable[t]

(* randBetween(rng, min, max) for the draw made from counter t *)
randBetween(t, lo, hi) == lo + ((hi - lo) * rngValue(t)) \div RngMod

RECURSIVE toString36(_)
toString36(n) ==
  IF n < 36 THEN <<n>> ELSE Append(toString36(n \div 36), n % 36)

IdScale == 1000000000 \div RngMod
(* id(rng) for the draw made from counter t *)
idTable == [t \in 0..(RngMod - 1) |-> toString36(rngTable[t] * IdScale)]
id(t) == idTable[t]

(* ------------------------------------------------------------------ *)
(* game.ts: entities                                                  *)
(* ------------------------------------------------------------------ *)
Statuses == {"ready", "running", "paused", "gameover"}

(* the generator's counter after k further draws *)
rngSkip(t, k) == (t + k * RngInc) % RngMod

createFreshShip(width, height, nowMs, angle) ==
  [pos |-> Vec(width \div 2, height \div 2),
   vel |-> Vec(0, 0),
   angle |-> angle,
   radius |-> SHIP_RADIUS,
   invincibleUntilMs |-> nowMs + SHIP_INVINCIBLE_MS,
   canFireAtMs |-> nowMs]

(* the heading createFreshShip gives when keepAngle is absent: -Math.PI / 2 *)
DefaultAngle == -(PI \div 2)

sizeToRadius(size) ==
  IF size = 3 THEN ASTEROID_LARGE_RADIUS
  ELSE IF size = 2 THEN ASTEROID_MED_RADIUS
  ELSE ASTEROID_SMALL_RADIUS

(* createAsteroid; at = <<>> when opts.at is absent, <<pos>> otherwise.
   Returns the asteroid and the generator's counter after its draws. *)
createAsteroid(t0, width, height, size, at0) ==
  Let1([t |-> t0, at |-> at0], LAMBDA p :
    LET t == p.t
        nPos == IF p.at = <<>> THEN 2 ELSE 0
        pos == IF p.at = <<>>
               THEN Vec((rngValue(t) * width) \div RngMod,
                        (rngValue(rngSkip(t, 1)) * height) \div RngMod)
               ELSE p.at[1]
        base == ASTEROID_BASE_SPEED + (3 - size) * 28 * Unit
        speed == randBetween(rngSkip(t, nPos), (base * 75) \div 100, (base * 140) \div 100)
        dir == fromAngle(randBetween(rngSkip(t, nPos + 1), 0, TAU))
        vel == mul(dir, speed, Milli)
        shape == [i \in 1..VERTEX_COUNT |-> randBetween(rngSkip(t, nPos + 1 + i), 720, 1180)]
        k == nPos + 2 + VERTEX_COUNT
    IN  [a |-> [id |-> id(rngSkip(t, k)),
                pos |-> pos,
                vel |-> vel,
                angle |-> randBetween(rngSkip(t, k + 1), 0, TAU),
                spin |-> randBetween(rngSkip(t, k + 2), -1400, 1400),
                radius |-> sizeToRadius(size),
                size |-> size,
                shape |-> shape],
         rng |-> rngSkip(t, k + 3)])

jitter(pos, t, amount) ==
  Vec(pos.x + randBetween(t, -amount, amount),
      pos.y + randBetween(rngSkip(t, 1), -amount, amount))

nudgeVelocity(a, parentVel, t) ==
  LET kick == mul(fromAngle(randBetween(t, 0, TAU)),
                  randBetween(rngSkip(t, 1), 30 * Unit, 120 * Unit), Milli)
  IN  [a EXCEPT !.vel = add(parentVel, add(a.vel, kick))]

(* the two offspring of one tier, in the order the code draws them *)
splitInto(asteroid, t, size, amount) ==
  Let1(createAsteroid(rngSkip(t, 2), 1, 1, size, <<jitter(asteroid.pos, t, amount)>>),
       LAMBDA c1 :
  Let1(createAsteroid(rngSkip(c1.rng, 2), 1, 1, size,
                      <<jitter(asteroid.pos, c1.rng, amount)>>),
       LAMBDA c2 :
    [spawned |-> <<nudgeVelocity(c1.a, asteroid.vel, c2.rng),
                   nudgeVelocity(c2.a, asteroid.vel, rngSkip(c2.rng, 2))>>,
     rng |-> rngSkip(c2.rng, 4)]))

(* variant of splitAsteroid with the scores of the large and the small tier
   exchanged *)
splitAsteroid_swappedScore(asteroid, t) ==
  IF asteroid.size = 3
  THEN Let1(splitInto(asteroid, t, 2, 16 * Unit), LAMBDA s :
         [spawned |-> s.spawned, score |-> SCORE_SMALL, rng |-> s.rng])
  ELSE IF asteroid.size = 2
  THEN Let1(splitInto(asteroid, t, 1, 10 * Unit), LAMBDA s :
         [spawned |-> s.spawned, score |-> SCORE_MED, rng |-> s.rng])
  ELSE [spawned |-> <<>>, score |-> SCORE_LARGE, rng |-> t]

(* variant of splitAsteroid that scores nothing for a small asteroid *)
splitAsteroid_noSmallScore(asteroid, t) ==
  IF asteroid.size = 3
  THEN Let1(splitInto(asteroid, t, 2, 16 * Unit), LAMBDA s :
         [spawned |-> s.spawned, score |-> SCORE_LARGE, rng |-> s.rng])
  ELSE IF asteroid.size = 2
  THEN Let1(splitInto(asteroid, t, 1, 10 * Unit), LAMBDA s :
         [spawned |-> s.spawned, score |-> SCORE_MED, rng |-> s.rng])
  ELSE [spawned |-> <<>>, score |-> 0, rng |-> t]

splitAsteroid(asteroid, t) ==
  IF asteroid.size = 3
  THEN Let1(splitInto(asteroid, t, 2, 16 * Unit), LAMBDA s :
         [spawned |-> s.spawned, score |-> SCORE_LARGE, rng |-> s.rng])
  ELSE IF asteroid.size = 2
  THEN Let1(splitInto(asteroid, t, 1, 10 * Unit), LAMBDA s :
         [spawned |-> s.spawned, score |-> SCORE_MED, rng |-> s.rng])
  ELSE [spawned |-> <<>>, score |-> SCORE_SMALL, rng |-> t]

(* variant of waveCount without the cap *)
waveCount_noCap(level) == 4 + (level * 75) \div 100

(* Math.min(4 + Math.floor(level * 0.75), 12) *)
waveCount(level) == Min(4 + (level * 75) \div 100, 12)

(* a wave that cannot be completed within MaxSpawnDraws draws is reported
   with done = FALSE *)
MaxSpawnDraws == 40 * RngMod

(* the position createAsteroid draws first when it is given none *)
spawnPos(t, width, height) ==
  Vec((rngValue(t) * width) \div RngMod, (rngValue(rngSkip(t, 1)) * height) \div RngMod)

(* the draws one call of createAsteroid without a position consumes *)
SpawnDraws == VERTEX_COUNT + 7

(* how many candidates in a row the loop rejects (i -= 1; continue) from
   counter t on, where the candidate at t is rejected and some candidate is
   not *)
rejections(t, width, height, avoid) ==
  CHOOSE k \in 1..RngMod :
    /\ ~distLess(spawnPos(rngSkip(t, k * SpawnDraws), width, height), avoid,
                 SPAWN_AVOID_RADIUS)
    /\ \A j \in 1..(k - 1) :
         distLess(spawnPos(rngSkip(t, j * SpawnDraws), width, height), avoid,
                  SPAWN_AVOID_RADIUS)

RECURSIVE spawnLoop(_, _, _, _, _, _, _)
spawnLoop(t0, width, height, count, avoid, out0, used0) ==
  Let1([t |-> t0, out |-> out0, used |-> used0], LAMBDA p :
    IF Len(p.out) = count THEN [out |-> p.out, rng |-> p.t, done |-> TRUE]
    ELSE IF p.used >= MaxSpawnDraws THEN [out |-> p.out, rng |-> p.t, done |-> FALSE]
    ELSE IF distLess(spawnPos(p.t, width, height), avoid, SPAWN_AVOID_RADIUS)
    THEN Let1(rejections(p.t, width, height, avoid), LAMBDA k :
           spawnLoop(rngSkip(p.t, k * SpawnDraws), width, height, count, avoid, p.out,
                     p.used + k * SpawnDraws))
    ELSE Let1(createAsteroid(p.t, width, height, 3, <<>>), LAMBDA c :
           spawnLoop(c.rng, width, height, count, avoid, Append(p.out, c.a),
                     p.used + SpawnDraws)))

(* the generator visits every counter value, so the loop goes on for ever
   exactly when no draw lands outside the exclusion radius *)
canPlace(width, height, avoid) ==
  \E t \in 0..(RngMod - 1) :
    ~distLess(spawnPos(t, width, height), avoid, SPAWN_AVOID_RADIUS)

spawnAsteroids(t, width, height, level, avoid) ==
  IF canPlace(width, height, avoid)
  THEN spawnLoop(t, width, height, waveCount(level), avoid, <<>>, 0)
  ELSE [out |-> <<>>, rng |-> t, done |-> FALSE]

(* ------------------------------------------------------------------ *)
(* game.ts: integration                                               *)
(* ------------------------------------------------------------------ *)
normAngle(a) == ((a % TAU) + TAU) % TAU

capSpeed(vel) ==
  IF vel.x * vel.x + vel.y * vel.y > SHIP_MAX_SPEED * SHIP_MAX_SPEED
  THEN mul(vel, SHIP_MAX_SPEED, hypot(vel))
  ELSE vel

thrust(ship, input, angle, dtMs) ==
  IF input.isThrusting
  THEN add(ship.vel, mul(fromAngle(angle), SHIP_THRUST * dtMs, Milli * 1000))
  ELSE ship.vel

integrateShip(ship, input, dtMs, game) ==
  Let1(normAngle(ship.angle + (input.rotateDir * SHIP_TURN_RATE * dtMs) \div 1000),
       LAMBDA angle :
  Let1(mul(thrust(ship, input, angle, dtMs), SHIP_FRICTION, 1000), LAMBDA slowed :
  Let1(capSpeed(slowed), LAMBDA vel :
    [ship EXCEPT !.angle = angle, !.vel = vel,
                 !.pos = wrapPosition(add(ship.pos, mul(vel, dtMs, 1000)),
                                      game.width, game.height)])))

integrateBullet(b, dtMs, game) ==
  [b EXCEPT !.pos = wrapPosition(add(b.pos, mul(b.vel, dtMs, 1000)), game.width, game.height)]

(* variant of integrateBullets that drops no projectile *)
integrateBullets_keepsOld(bullets, dtMs, game, nowMs) ==
  [i \in 1..Len(bullets) |-> integrateBullet(bullets[i], dtMs, game)]

integrateBullets(bullets, dtMs, game, nowMs) ==
  Let1(SelectSeq(bullets, LAMBDA b : nowMs - b.bornAtMs < BULLET_LIFETIME_MS), LAMBDA live :
    [i \in 1..Len(live) |-> integrateBullet(live[i], dtMs, game)])

integrateAsteroid(a, dtMs, game) ==
  [a EXCEPT !.pos = wrapPosition(add(a.pos, mul(a.vel, dtMs, 1000)), game.width, game.height),
            !.angle = normAngle(a.angle + (a.spin * dtMs) \div 1000)]

integrateAsteroids(asteroids, dtMs, game) ==
  [i \in 1..Len(asteroids) |-> integrateAsteroid(asteroids[i], dtMs, game)]

pruneExplosions(explosions, nowMs) ==
  SelectSeq(explosions, LAMBDA e : nowMs - e.bornAtMs < e.durationMs)

(* ------------------------------------------------------------------ *)
(* game.ts: step                                                      *)
(* ------------------------------------------------------------------ *)
Explosion(t, pos, nowMs, durationMs) ==
  [id |-> id(t), pos |-> pos, bornAtMs |-> nowMs, durationMs |-> durationMs]

(* variant of hyperspace that makes a third draw *)
hyperspace_extraDraw(ship, input, nowMs, game, t) ==
  IF input.isHyperspace /\ nowMs >= ship.invincibleUntilMs
  THEN [ship |-> [ship EXCEPT
                    !.pos = Vec((rngValue(t) * game.width) \div RngMod,
                                (rngValue(rngSkip(t, 1)) * game.height) \div RngMod),
                    !.invincibleUntilMs = nowMs + HYPERSPACE_INVINCIBLE_MS],
        rng |-> rngSkip(t, 3), jumped |-> TRUE]
  ELSE [ship |-> ship, rng |-> t, jumped |-> FALSE]

(* variant of hyperspace that jumps whether or not the craft is invincible *)
hyperspace_ignoresInvincibility(ship, input, nowMs, game, t) ==
  IF input.isHyperspace
  THEN [ship |-> [ship EXCEPT
                    !.pos = Vec((rngValue(t) * game.width) \div RngMod,
                                (rngValue(rngSkip(t, 1)) * game.height) \div RngMod),
                    !.invincibleUntilMs = nowMs + HYPERSPACE_INVINCIBLE_MS],
        rng |-> rngSkip(t, 2), jumped |-> TRUE]
  ELSE [ship |-> ship, rng |-> t, jumped |-> FALSE]

hyperspace(ship, input, nowMs, game, t) ==
  IF input.isHyperspace /\ nowMs >= ship.invincibleUntilMs
  THEN [ship |-> [ship EXCEPT
                    !.pos = Vec((rngValue(t) * game.width) \div RngMod,
                                (rngValue(rngSkip(t, 1)) * game.height) \div RngMod),
                    !.invincibleUntilMs = nowMs + HYPERSPACE_INVINCIBLE_MS],
        rng |-> rngSkip(t, 2), jumped |-> TRUE]
  ELSE [ship |-> ship, rng |-> t, jumped |-> FALSE]

(* variant of canFire without the cooldown *)
canFire_noCooldown(ship, input, nowMs) == input.isFiring

canFire(ship, input, nowMs) == input.isFiring /\ nowMs >= ship.canFireAtMs

newBullet(ship, nowMs, t) ==
  LET dir == fromAngle(ship.angle)
  IN  [id |-> id(t),
       pos |-> add(ship.pos, mul(dir, ship.radius + MUZZLE_OFFSET, Milli)),
       vel |-> add(ship.vel, mul(dir, BULLET_SPEED, Milli)),
       radius |-> BULLET_RADIUS,
       bornAtMs |-> nowMs]

fire(ship, bullets, input, nowMs, t) ==
  IF canFire(ship, input, nowMs)
  THEN [ship |-> [ship EXCEPT !.canFireAtMs = nowMs + BULLET_COOLDOWN_MS],
        bullets |-> Append(bullets, newBullet(ship, nowMs, t)),
        rng |-> rngSkip(t, 1), fired |-> TRUE]
  ELSE [ship |-> ship, bullets |-> bullets, rng |-> t, fired |-> FALSE]

bulletHits(b, a) == distLeq(b.pos, a.pos, b.radius + a.radius)

(* one (bullet, asteroid) pair of the nested loop; acc.hits lists the
   asteroids hit and acc.by the bullet that hit each, in discovery order *)
hitPair(b, a, acc, nowMs) ==
  IF a.id \in acc.hitAsteroids THEN acc
  ELSE IF bulletHits(b, a)
  THEN Let1(splitAsteroid(a, acc.rng), LAMBDA split :
         [hitAsteroids |-> acc.hitAsteroids \cup {a.id},
          spentBullets |-> acc.spentBullets \cup {b.id},
          spawned |-> acc.spawned \o split.spawned,
          score |-> acc.score + split.score,
          explosions |-> Append(acc.explosions,
                                Explosion(split.rng, a.pos, nowMs, EXPLOSION_ASTEROID_MS)),
          rng |-> rngSkip(split.rng, 1),
          hits |-> Append(acc.hits, a),
          by |-> Append(acc.by, b)])
  ELSE acc

RECURSIVE hitLoop(_, _, _, _, _, _)
hitLoop(bullets, asteroids, bi0, ai0, acc0, nowMs) ==
  Let1([bi |-> bi0, ai |-> ai0, acc |-> acc0], LAMBDA p :
    IF p.bi > Len(bullets) THEN p.acc
    ELSE IF p.ai > Len(asteroids)
    THEN hitLoop(bullets, asteroids, p.bi + 1, 1, p.acc, nowMs)
    ELSE Let1([b |-> bullets[p.bi], a |-> asteroids[p.ai]], LAMBDA q :
           hitLoop(bullets, asteroids, p.bi, p.ai + 1,
                   hitPair(q.b, q.a, p.acc, nowMs), nowMs)))

shipHits(ship, a) == distLeq(ship.pos, a.pos, ship.radius + a.radius)

(* variant of the test below that reads the wrong timer *)
isInvincible_wrongTimer(ship, nowMs) == nowMs < ship.canFireAtMs

isInvincible(ship, nowMs) == nowMs < ship.invincibleUntilMs

shipCollides(ship, asteroids, nowMs) ==
  /\ ~isInvincible(ship, nowMs)
  /\ \E i \in 1..Len(asteroids) : shipHits(ship, asteroids[i])

(* variant of the decrement that takes two lives *)
livesAfterHit_double(lives) == lives - 2

livesAfterHit(lives) == lives - 1

(* variants of the test below: `<` for `<=`, and an off-by-one bound *)
isGameOver_strict(lives) == lives < 0
isGameOver_early(lives) == lives <= 1

(* the test that ends the run: lives <= 0 after the decrement *)
isGameOver(lives) == lives <= 0

(* variant of explode that ends the run without the craft's own effect *)
explode_dropsEffect(prev, nowMs, ship, asteroids, c, obs) ==
  Let1([explosions |-> Append(c.explosions,
                              Explosion(c.rng, ship.pos, nowMs, EXPLOSION_SHIP_MS)),
        lives |-> livesAfterHit(prev.lives)], LAMBDA e :
    IF isGameOver(e.lives)
    THEN [next |-> [prev EXCEPT !.status = "gameover", !.nowMs = nowMs,
                                !.lastFrameMs = nowMs, !.lives = 0,
                                !.score = c.score, !.bullets = <<>>,
                                !.ship = ship, !.asteroids = asteroids,
                                !.explosions = c.explosions],
          didShipExplode |-> TRUE, didLevelAdvance |-> FALSE, obs |-> obs]
    ELSE [next |-> [prev EXCEPT !.nowMs = nowMs, !.lastFrameMs = nowMs,
                                !.lives = e.lives, !.score = c.score,
                                !.ship = createFreshShip(prev.width, prev.height,
                                                         nowMs, ship.angle),
                                !.bullets = <<>>, !.asteroids = asteroids,
                                !.explosions = e.explosions],
          didShipExplode |-> TRUE, didLevelAdvance |-> FALSE, obs |-> obs])

(* variant of explode that scores the effects on screen *)
explode_scoresEffects(prev, nowMs, ship, asteroids, c, obs) ==
  Let1([explosions |-> Append(c.explosions,
                              Explosion(c.rng, ship.pos, nowMs, EXPLOSION_SHIP_MS)),
        lives |-> livesAfterHit(prev.lives)], LAMBDA e :
    IF isGameOver(e.lives)
    THEN [next |-> [prev EXCEPT !.status = "gameover", !.nowMs = nowMs,
                                !.lastFrameMs = nowMs, !.lives = 0,
                                !.score = c.score + Len(e.explosions),
                                !.bullets = <<>>,
                                !.ship = ship, !.asteroids = asteroids,
                                !.explosions = e.explosions],
          didShipExplode |-> TRUE, didLevelAdvance |-> FALSE, obs |-> obs]
    ELSE [next |-> [prev EXCEPT !.nowMs = nowMs, !.lastFrameMs = nowMs,
                                !.lives = e.lives,
                                !.score = c.score + Len(e.explosions),
                                !.ship = createFreshShip(prev.width, prev.height,
                                                         nowMs, ship.angle),
                                !.bullets = <<>>, !.asteroids = asteroids,
                                !.explosions = e.explosions],
          didShipExplode |-> TRUE, didLevelAdvance |-> FALSE, obs |-> obs])

(* variant of explode that counts a lost life as a cleared level *)
explode_advances(prev, nowMs, ship, asteroids, c, obs) ==
  Let1([explosions |-> Append(c.explosions,
                              Explosion(c.rng, ship.pos, nowMs, EXPLOSION_SHIP_MS)),
        lives |-> livesAfterHit(prev.lives)], LAMBDA e :
    IF isGameOver(e.lives)
    THEN [next |-> [prev EXCEPT !.status = "gameover", !.nowMs = nowMs,
                                !.lastFrameMs = nowMs, !.lives = 0,
                                !.score = c.score, !.bullets = <<>>,
                                !.ship = ship, !.asteroids = asteroids,
                                !.explosions = e.explosions],
          didShipExplode |-> TRUE, didLevelAdvance |-> FALSE, obs |-> obs]
    ELSE [next |-> [prev EXCEPT !.nowMs = nowMs, !.lastFrameMs = nowMs,
                                !.lives = e.lives, !.score = c.score,
                                !.ship = createFreshShip(prev.width, prev.height,
                                                         nowMs, ship.angle),
                                !.bullets = <<>>, !.asteroids = asteroids,
                                !.explosions = e.explosions,
                                !.level = prev.level + 1],
          didShipExplode |-> TRUE, didLevelAdvance |-> FALSE, obs |-> obs])

(* the return of step when the craft explodes *)
explode(prev, nowMs, ship, asteroids, c, obs) ==
  Let1([explosions |-> Append(c.explosions,
                              Explosion(c.rng, ship.pos, nowMs, EXPLOSION_SHIP_MS)),
        lives |-> livesAfterHit(prev.lives)], LAMBDA e :
    IF isGameOver(e.lives)
    THEN [next |-> [prev EXCEPT !.status = "gameover", !.nowMs = nowMs,
                                !.lastFrameMs = nowMs, !.lives = 0,
                                !.score = c.score, !.bullets = <<>>,
                                !.ship = ship, !.asteroids = asteroids,
                                !.explosions = e.explosions],
          didShipExplode |-> TRUE, didLevelAdvance |-> FALSE, obs |-> obs]
    ELSE [next |-> [prev EXCEPT !.nowMs = nowMs, !.lastFrameMs = nowMs,
                                !.lives = e.lives, !.score = c.score,
                                !.ship = createFreshShip(prev.width, prev.height,
                                                         nowMs, ship.angle),
                                !.bullets = <<>>, !.asteroids = asteroids,
                                !.explosions = e.explosions],
          didShipExplode |-> TRUE, didLevelAdvance |-> FALSE, obs |-> obs])

(* the return of step when no asteroid is left *)
(* variant of advance that keeps the wave away from the viewport centre
   instead of the craft *)
advance_avoidsCentre(prev, nowMs, ship, bullets, c, obs) ==
  Let1(spawnAsteroids(c.rng, prev.width, prev.height, prev.level + 1,
                      Vec(prev.width \div 2, prev.height \div 2)), LAMBDA w :
    [next |-> [prev EXCEPT !.nowMs = nowMs, !.lastFrameMs = nowMs,
                           !.ship = [ship EXCEPT !.invincibleUntilMs =
                                                   nowMs + SHIP_INVINCIBLE_MS],
                           !.bullets = bullets, !.asteroids = w.out,
                           !.explosions = c.explosions, !.score = c.score,
                           !.level = prev.level + 1],
     didShipExplode |-> FALSE, didLevelAdvance |-> TRUE,
     obs |-> [obs EXCEPT !.complete = w.done]])

(* variant of advance that raises the level without a wave *)
advance_noWave(prev, nowMs, ship, bullets, c, obs) ==
  [next |-> [prev EXCEPT !.nowMs = nowMs, !.lastFrameMs = nowMs,
                         !.ship = [ship EXCEPT !.invincibleUntilMs =
                                                 nowMs + SHIP_INVINCIBLE_MS],
                         !.bullets = bullets, !.asteroids = <<>>,
                         !.explosions = c.explosions, !.score = c.score,
                         !.level = prev.level + 1],
   didShipExplode |-> FALSE, didLevelAdvance |-> TRUE, obs |-> obs]

advance(prev, nowMs, ship, bullets, c, obs) ==
  Let1(spawnAsteroids(c.rng, prev.width, prev.height, prev.level + 1, ship.pos), LAMBDA w :
    [next |-> [prev EXCEPT !.nowMs = nowMs, !.lastFrameMs = nowMs,
                           !.ship = [ship EXCEPT !.invincibleUntilMs =
                                                   nowMs + SHIP_INVINCIBLE_MS],
                           !.bullets = bullets, !.asteroids = w.out,
                           !.explosions = c.explosions, !.score = c.score,
                           !.level = prev.level + 1],
     didShipExplode |-> FALSE, didLevelAdvance |-> TRUE,
     obs |-> [obs EXCEPT !.complete = w.done]])

(* the rules of step that follow the bullet collisions c *)
resolve(prev, nowMs, ship, bullets, asteroids, c, obs0) ==
  Let1([obs0 EXCEPT !.hits = c.hits, !.by = c.by, !.spawned = c.spawned,
                    !.remaining = Len(asteroids)], LAMBDA obs :
    IF shipCollides(ship, asteroids, nowMs)
    THEN explode(prev, nowMs, ship, asteroids, c, obs)
    ELSE IF Len(asteroids) = 0
    THEN advance(prev, nowMs, ship, bullets, c, obs)
    ELSE [next |-> [prev EXCEPT !.nowMs = nowMs, !.lastFrameMs = nowMs, !.ship = ship,
                                !.bullets = bullets, !.asteroids = asteroids,
                                !.explosions = c.explosions, !.score = c.score],
          didShipExplode |-> FALSE, didLevelAdvance |-> FALSE, obs |-> obs])

NoObs == [dtMs |-> 0, fired |-> FALSE, jumped |-> FALSE, hits |-> <<>>, by |-> <<>>,
          spawned |-> <<>>, remaining |-> 0, complete |-> TRUE]

(* step for prev.status = "running".  Besides next and the two event flags
   the result carries what the frame did: dtMs, fired, jumped, hits, by,
   spawned, remaining (the number of asteroids left once the bullet
   collisions are applied) and complete (FALSE when the next wave could not
   be placed). *)
stepRunning(prev, input, nowMs, seed) ==
  Let1(clamp(nowMs - prev.lastFrameMs, 0, MAX_DT_MS), LAMBDA dtMs :
  Let1([ship |-> integrateShip(prev.ship, input, dtMs, prev),
        bullets |-> integrateBullets(prev.bullets, dtMs, prev, nowMs),
        asteroids |-> integrateAsteroids(prev.asteroids, dtMs, prev),
        explosions |-> pruneExplosions(prev.explosions, nowMs)], LAMBDA g :
  Let1(hyperspace(g.ship, input, nowMs, prev, createRng(seed)), LAMBDA h :
  Let1(fire(h.ship, g.bullets, input, nowMs, h.rng), LAMBDA f :
  Let1(hitLoop(f.bullets, g.asteroids, 1, 1,
               [hitAsteroids |-> {}, spentBullets |-> {}, spawned |-> <<>>,
                score |-> prev.score, explosions |-> g.explosions, rng |-> f.rng,
                hits |-> <<>>, by |-> <<>>], nowMs), LAMBDA c :
  Let1([bullets |-> SelectSeq(f.bullets, LAMBDA b : b.id \notin c.spentBullets),
        asteroids |-> SelectSeq(g.asteroids, LAMBDA a : a.id \notin c.hitAsteroids)
                        \o c.spawned], LAMBDA r :
    resolve(prev, nowMs, f.ship, r.bullets, r.asteroids, c,
            [NoObs EXCEPT !.dtMs = dtMs, !.fired = f.fired, !.jumped = h.jumped])))))))

(* variant of the test below that lets a paused game run *)
notRunning_pausedRuns(status) == status \in {"ready", "gameover"}

notRunning(status) == status # "running"

step(prev, input, nowMs, seed) ==
  IF notRunning(prev.status)
  THEN [next |-> [prev EXCEPT !.nowMs = nowMs, !.lastFrameMs = nowMs],
        didShipExplode |-> FALSE, didLevelAdvance |-> FALSE, obs |-> NoObs]
  ELSE stepRunning(prev, input, nowMs, seed)

(* ------------------------------------------------------------------ *)
(* game.ts: lifecycle                                                 *)
(* ------------------------------------------------------------------ *)
(* variant of createInitialState that spawns the wave of level 2 *)
createInitialState_nextWave(width, height, nowMs, seed) ==
  LET ship == createFreshShip(width, height, nowMs, DefaultAngle)
  IN  [status |-> "ready",
       width |-> width,
       height |-> height,
       startedAtMs |-> nowMs,
       nowMs |-> nowMs,
       lives |-> DEFAULT_LIVES,
       score |-> 0,
       level |-> 1,
       ship |-> ship,
       bullets |-> <<>>,
       asteroids |-> spawnAsteroids(createRng(seed), width, height, 2, ship.pos).out,
       explosions |-> <<>>,
       lastFrameMs |-> nowMs]

createInitialState(width, height, nowMs, seed) ==
  LET ship == createFreshShip(width, height, nowMs, DefaultAngle)
  IN  [status |-> "ready",
       width |-> width,
       height |-> height,
       startedAtMs |-> nowMs,
       nowMs |-> nowMs,
       lives |-> DEFAULT_LIVES,
       score |-> 0,
       level |-> 1,
       ship |-> ship,
       bullets |-> <<>>,
       asteroids |-> spawnAsteroids(createRng(seed), width, height, 1, ship.pos).out,
       explosions |-> <<>>,
       lastFrameMs |-> nowMs]

(* whether createInitialState returns: its wave can be placed *)
createInitialStateReturns(width, height, seed) ==
  spawnAsteroids(createRng(seed), width, height, 1,
                 createFreshShip(width, height, 0, DefaultAngle).pos).done

(* variant of resizeState that re-wraps the obstacles as well *)
resizeState_wrapsObstacles(prev, width, height) ==
  IF prev.width = width /\ prev.height = height THEN prev
  ELSE [prev EXCEPT !.width = width, !.height = height,
                    !.ship = [prev.ship EXCEPT !.pos = wrapPosition(prev.ship.pos, width, height)],
                    !.asteroids = [i \in 1..Len(prev.asteroids) |->
                                     [prev.asteroids[i] EXCEPT
                                        !.pos = wrapPosition(prev.asteroids[i].pos, width, height)]]]

resizeState(prev, width, height) ==
  IF prev.width = width /\ prev.height = height THEN prev
  ELSE [prev EXCEPT !.width = width, !.height = height,
                    !.ship = [prev.ship EXCEPT !.pos = wrapPosition(prev.ship.pos, width, height)]]

(* variant of startGame that also zeroes the score *)
startGame_resetsScore(prev, nowMs) ==
  IF prev.status = "running" THEN prev
  ELSE [prev EXCEPT !.status = "running", !.startedAtMs = nowMs, !.nowMs = nowMs,
                    !.lastFrameMs = nowMs, !.score = 0]

(* variant of startGame that leaves the last-frame timestamp alone *)
startGame_staleFrame(prev, nowMs) ==
  IF prev.status = "running" THEN prev
  ELSE [prev EXCEPT !.status = "running", !.startedAtMs = nowMs, !.nowMs = nowMs]

startGame(prev, nowMs) ==
  IF prev.status = "running" THEN prev
  ELSE [prev EXCEPT !.status = "running", !.startedAtMs = nowMs, !.nowMs = nowMs,
                    !.lastFrameMs = nowMs]

(* variant of togglePause that also starts a game that is ready *)
togglePause_fromReady(prev) ==
  IF prev.status = "running" THEN [prev EXCEPT !.status = "paused"]
  ELSE IF prev.status \in {"paused", "ready"} THEN [prev EXCEPT !.status = "running"]
  ELSE prev

togglePause(prev) ==
  IF prev.status = "running" THEN [prev EXCEPT !.status = "paused"]
  ELSE IF prev.status = "paused" THEN [prev EXCEPT !.status = "running"]
  ELSE prev

(* variant of resetGame that carries the score over *)
resetGame_keepsScore(prev, nowMs, seed) ==
  [createInitialState(prev.width, prev.height, nowMs, seed) EXCEPT !.score = prev.score]

resetGame(prev, nowMs, seed) == createInitialState(prev.width, prev.height, nowMs, seed)

(* ------------------------------------------------------------------ *)
(* bounds of the exploration                                          *)
(* ------------------------------------------------------------------ *)
MaxCalls == 2

ViewW == 800 * Unit
ViewH == 600 * Unit
TinyW == 200 * Unit
TinyH == 200 * Unit
Sizes == {<<ViewW, ViewH>>, <<400 * Unit, 300 * Unit>>, <<TinyW, TinyH>>}

(* elapsed times between two calls: a 60 Hz frame, and a stall that
   exceeds the clamp and the fire cooldown *)
Deltas == {16, 200}
(* the time between the last call and a restart *)
RestartDeltas == {16}
Seeds == {1, 99}

EMPTY_INPUT == [isThrusting |-> FALSE, rotateDir |-> 0, isFiring |-> FALSE,
                isHyperspace |-> FALSE]
(* inputRef.current: the held keys; isHyperspace is filled in by tick *)
Inputs ==
  {EMPTY_INPUT,
   [EMPTY_INPUT EXCEPT !.isFiring = TRUE],
   [EMPTY_INPUT EXCEPT !.isThrusting = TRUE, !.rotateDir = 1]}

(* ------------------------------------------------------------------ *)
(* snapshots of a run in progress                                     *)
(* ------------------------------------------------------------------ *)
MidRunMs == 5000
MidRunInvMs == 100
MidRunFireMs == MidRunMs - 220

asteroidValue(size) == IF size = 3 THEN 520 ELSE IF size = 2 THEN 250 ELSE 100

RECURSIVE sumValues(_)
sumValues(asts) ==
  IF asts = <<>> THEN 0 ELSE asteroidValue(Head(asts).size) + sumValues(Tail(asts))

RECURSIVE wavesUpTo(_)
wavesUpTo(level) == IF level = 0 THEN 0 ELSE waveCount(level) + wavesUpTo(level - 1)

(* an asteroid of the given tier at `at`, made the way the code makes one:
   a wave asteroid for tier 3, an offspring of a split otherwise *)
asteroidAt(size, at, t) ==
  IF size = 3 THEN createAsteroid(t, 1, 1, 3, <<at>>).a
  ELSE nudgeVelocity(createAsteroid(t, 1, 1, size, <<at>>).a, Vec(0, 0), rngSkip(t, 17))

(* a run at MidRunMs in the given level: the craft at rest at the centre
   heading up, 1300 ms after its last respawn (invincible for MidRunInvMs
   more), its last shot fired at MidRunFireMs, the given asteroids left of
   the level's wave *)
midRun(lives, level, asts) ==
  [status |-> "running",
   width |-> ViewW,
   height |-> ViewH,
   startedAtMs |-> 0,
   nowMs |-> MidRunMs,
   lives |-> lives,
   score |-> wavesUpTo(level) * asteroidValue(3) - sumValues(asts),
   level |-> level,
   ship |-> [createFreshShip(ViewW, ViewH, MidRunMs + MidRunInvMs - SHIP_INVINCIBLE_MS,
                             normAngle(DefaultAngle))
               EXCEPT !.canFireAtMs = MidRunFireMs + BULLET_COOLDOWN_MS],
   bullets |-> <<>>,
   asteroids |-> asts,
   explosions |-> <<>>,
   lastFrameMs |-> MidRunMs]

(* `up` tenths of a pixel above (ahead of) the centre; negative: behind *)
Above(up) == Vec(ViewW \div 2, ViewH \div 2 - up)

(* an asteroid overlapping the craft, ahead of it or behind it *)
Near(sz, ahead, t) ==
  asteroidAt(sz, Above(IF ahead THEN sizeToRadius(sz) - 100 ELSE 100 - sizeToRadius(sz)), t)

(* the run after the window shrank to TinyW x TinyH and the craft came to
   rest at its centre, one small asteroid ahead of it *)
tinyRun ==
  [midRun(3, 1, <<asteroidAt(1, Vec(TinyW \div 2, TinyH \div 2 - (sizeToRadius(1) - 100)), 7)>>)
     EXCEPT !.width = TinyW, !.height = TinyH,
            !.ship.pos = Vec(TinyW \div 2, TinyH \div 2)]

(* the run with the craft's last shot still in flight, about to reach the
   one small asteroid left *)
shotRun ==
  LET g == midRun(3, 1, <<>>)
      b == newBullet(g.ship, MidRunFireMs, 5)
      at == add(b.pos, mul(b.vel, MidRunMs - MidRunFireMs, 1000))
  IN  [g EXCEPT !.bullets = <<[b EXCEPT !.pos = at]>>,
                !.asteroids = <<asteroidAt(1, add(at, mul(b.vel, MAX_DT_MS, 1000)), 7)>>,
                !.score = wavesUpTo(1) * asteroidValue(3) - asteroidValue(1)]

(* the run with a medium asteroid ahead of the craft and, behind it, a
   small one left from an earlier split: the first offspring of a medium
   asteroid that a shot destroyed in a frame whose seed was 1 *)
pairRun ==
  LET ahead == asteroidAt(2, Above(500), 11)
      left == splitAsteroid(asteroidAt(2, Above(-2000), 23),
                            rngSkip(createRng(1), 1)).spawned[1]
  IN  midRun(3, 1, <<ahead, [left EXCEPT !.pos = Above(-2000)]>>)

(* a run whose only asteroid sits where a jump made 200 ms later with seed 1
   lands the craft *)
jumpRun ==
  LET g == midRun(3, 1, <<>>)
      to == hyperspace(g.ship, [EMPTY_INPUT EXCEPT !.isHyperspace = TRUE],
                       MidRunMs + 200, g, createRng(1)).ship.pos
  IN  midRun(3, 1, <<asteroidAt(3, to, 7)>>)

(* the run with a volley in flight: four shots fired one cooldown apart, the
   last at MidRunFireMs, a large asteroid away from their path and the
   effect of a hit made at MidRunFireMs still playing *)
volleyRun ==
  LET g == midRun(3, 1, <<asteroidAt(3, Vec(100 * Unit, 100 * Unit), 7)>>)
      shot(k) ==
        LET born == MidRunFireMs - k * BULLET_COOLDOWN_MS
            b == newBullet(g.ship, born, 10 * (k + 1))
        IN  [b EXCEPT !.pos = wrapPosition(add(b.pos, mul(b.vel, MidRunMs - born, 1000)),
                                           ViewW, ViewH)]
  IN  [g EXCEPT !.bullets = <<shot(3), shot(2), shot(1), shot(0)>>,
                !.explosions = <<Explosion(9, Vec(100 * Unit, 300 * Unit),
                                           MidRunFireMs, EXPLOSION_ASTEROID_MS)>>]

(* the run that has just ended: the craft's last life lost to the asteroid
   upon it in the frame at MidRunMs + 200 *)
overRun ==
  step(midRun(1, 1, <<Near(3, FALSE, 7)>>), EMPTY_INPUT, MidRunMs + 200, 1).next

(* how far the frame timestamp lags the clock, and how long a pause lasted *)
LagMs == 20
PauseMs == 3000

MidRuns ==
  { midRun(l, 1, <<Near(sz, ahead, 7)>>) :
      l \in {1, 2}, sz \in {1, 2, 3}, ahead \in BOOLEAN }
  \cup
  { midRun(3, 11, <<Near(1, TRUE, 7)>>),
    midRun(3, 1, <<asteroidAt(2, Above(2000), 11), Near(1, TRUE, 23)>>),
    tinyRun, shotRun, pairRun, jumpRun, volleyRun }

(* ------------------------------------------------------------------ *)
(* state                                                              *)
(* ------------------------------------------------------------------ *)
VARIABLES
  game,    \* gameRef.current: the current snapshot
  prev,    \* the snapshot the last call was given
  op,      \* the last call: "createInitialState", "step", "startGame", ...;
           \* "init" for a snapshot of a run in progress, "hang" for a call
           \* that never returns
  arg,     \* its arguments: input, nowMs, seed, hidden
  res,     \* the last StepResult: didShipExplode, didLevelAdvance, and obs
  clock,   \* performance.now()
  hist,    \* fireMs: when this run last spawned a projectile (-1: never);
           \* resumedAtMs: when togglePause resumed the game, no step having
           \* been called since (-1: otherwise)
  calls,   \* number of calls made
  queuedHyperspace,  \* queuedHyperspaceRef.current
  pending  \* hyperspace requests since the last step call

vars == <<game, prev, op, arg, res, clock, hist, calls, queuedHyperspace, pending>>

NoArg == [input |-> EMPTY_INPUT, nowMs |-> 0, seed |-> 0, hidden |-> FALSE]
NoRes == [didShipExplode |-> FALSE, didLevelAdvance |-> FALSE, obs |-> NoObs]
NoHist == [fireMs |-> -1, resumedAtMs |-> -1, pausedAtMs |-> -1,
           explodedAtMs |-> -1, requestedIn |-> ""]

(* the history of a run in progress: its last shot, and the explosion that
   cost the craft its last life *)
MidHist(g) ==
  [NoHist EXCEPT !.fireMs = MidRunFireMs,
                 !.explodedAtMs = IF g.lives < DEFAULT_LIVES
                                  THEN g.ship.invincibleUntilMs - SHIP_INVINCIBLE_MS
                                  ELSE -1]

InitQueued(g, h, name, now, queued) ==
  /\ game = g
  /\ prev = g
  /\ op = name
  /\ arg = NoArg
  /\ res = NoRes
  /\ clock = now
  /\ hist = h
  /\ calls = 0
  /\ queuedHyperspace = queued
  /\ pending = IF queued THEN 1 ELSE 0

InitAt(g, h, name, now) == InitQueued(g, h, name, now, FALSE)

InitWith(g, h, name) == InitAt(g, h, name, g.nowMs)

(* the first syncSize, or a run in progress; then a run whose next frame
   carries a timestamp LagMs before the snapshot's (the frame began before
   the handler that wrote the snapshot ran), a run paused PauseMs ago with
   no frame delivered since, with or without a jump requested meanwhile,
   and a run that has just ended *)
Init ==
  \/ \E sz \in Sizes, seed \in Seeds :
       InitWith(createInitialState(sz[1], sz[2], 0, seed), NoHist,
                IF createInitialStateReturns(sz[1], sz[2], seed)
                THEN "createInitialState" ELSE "hang")
  \/ \E g \in MidRuns : InitWith(g, MidHist(g), "init")
  \/ InitAt(midRun(3, 1, <<Near(3, FALSE, 7)>>), MidHist(midRun(3, 1, <<>>)),
            "init", MidRunMs - LagMs - 16)
  \/ \E queued \in BOOLEAN :
       InitQueued(togglePause(midRun(3, 1, <<Near(3, FALSE, 7)>>)),
                  [MidHist(midRun(3, 1, <<>>))
                     EXCEPT !.pausedAtMs = MidRunMs,
                            !.requestedIn = IF queued THEN "paused" ELSE ""],
                  "init", MidRunMs + PauseMs, queued)
  \/ InitWith(overRun, [MidHist(overRun) EXCEPT !.explodedAtMs = overRun.nowMs], "init")

(* another call can be made *)
CanCall == op # "hang" /\ calls < MaxCalls

Called(name, a) ==
  /\ CanCall
  /\ calls' = calls + 1
  /\ prev' = game
  /\ op' = name
  /\ arg' = a

(* a call that never returns: nothing runs after it *)
Hangs(a) ==
  /\ Called("hang", a)
  /\ UNCHANGED <<game, res, clock, hist, queuedHyperspace, pending>>

(* variant of tick that reads the queued request without clearing it *)
Step_keepsQueue(input0, d, seed) ==
  /\ CanCall
  /\ \E input \in {[input0 EXCEPT !.isHyperspace = queuedHyperspace]} :
     \E r \in {step(game, input, clock + d, seed)} :
    /\ r.obs.complete
    /\ Called("step", [NoArg EXCEPT !.input = input, !.nowMs = clock + d, !.seed = seed])
    /\ queuedHyperspace' = queuedHyperspace
    /\ pending' = 0
    /\ game' = r.next
    /\ res' = [didShipExplode |-> r.didShipExplode,
               didLevelAdvance |-> r.didLevelAdvance, obs |-> r.obs]
    /\ clock' = clock + d
    /\ hist' = [hist EXCEPT !.fireMs = IF r.obs.fired THEN clock + d ELSE @,
                            !.resumedAtMs = -1,
                            !.pausedAtMs = IF game.status = "paused" THEN @ ELSE -1,
                            !.explodedAtMs = IF r.didShipExplode THEN clock + d ELSE @,
                            !.requestedIn = ""]

(* tick, when step returns *)
Step(input0, d, seed) ==
  /\ CanCall
  /\ \E input \in {[input0 EXCEPT !.isHyperspace = queuedHyperspace]} :
     \E r \in {step(game, input, clock + d, seed)} :
    /\ r.obs.complete
    /\ Called("step", [NoArg EXCEPT !.input = input, !.nowMs = clock + d, !.seed = seed])
    /\ queuedHyperspace' = FALSE
    /\ pending' = 0
    /\ game' = r.next
    /\ res' = [didShipExplode |-> r.didShipExplode,
               didLevelAdvance |-> r.didLevelAdvance, obs |-> r.obs]
    /\ clock' = clock + d
    /\ hist' = [hist EXCEPT !.fireMs = IF r.obs.fired THEN clock + d ELSE @,
                            !.resumedAtMs = -1,
                            !.pausedAtMs = IF game.status = "paused" THEN @ ELSE -1,
                            !.explodedAtMs = IF r.didShipExplode THEN clock + d ELSE @,
                            !.requestedIn = ""]

(* tick, when step never finds room for the next wave *)
StepHangs(input0, d, seed) ==
  /\ CanCall
  /\ \E input \in {[input0 EXCEPT !.isHyperspace = queuedHyperspace]} :
    /\ ~step(game, input, clock + d, seed).obs.complete
    /\ Hangs([NoArg EXCEPT !.input = input, !.nowMs = clock + d, !.seed = seed])

StartGame(d) ==
  /\ Called("startGame", [NoArg EXCEPT !.nowMs = clock + d])
  /\ game' = startGame(game, clock + d)
  /\ clock' = clock + d
  /\ UNCHANGED <<res, hist, queuedHyperspace, pending>>

TogglePause ==
  /\ Called("togglePause", NoArg)
  /\ game' = togglePause(game)
  /\ hist' = IF game.status = "paused" THEN [hist EXCEPT !.resumedAtMs = clock]
              ELSE IF game.status = "running" THEN [hist EXCEPT !.pausedAtMs = clock]
              ELSE hist
  /\ UNCHANGED <<res, clock, queuedHyperspace, pending>>

ResizeState(width, height) ==
  /\ Called("resizeState", NoArg)
  /\ game' = resizeState(game, width, height)
  /\ UNCHANGED <<res, clock, hist, queuedHyperspace, pending>>

(* doRestart, when createInitialState returns *)
ResetGame(d, seed) ==
  /\ CanCall
  /\ createInitialStateReturns(game.width, game.height, seed)
  /\ Called("resetGame", [NoArg EXCEPT !.nowMs = clock + d, !.seed = seed])
  /\ game' = resetGame(game, clock + d, seed)
  /\ clock' = clock + d
  /\ hist' = NoHist
  /\ UNCHANGED <<res, queuedHyperspace, pending>>

(* doRestart, when createInitialState never places its wave *)
ResetGameHangs(d, seed) ==
  /\ CanCall
  /\ ~createInitialStateReturns(game.width, game.height, seed)
  /\ Hangs([NoArg EXCEPT !.nowMs = clock + d, !.seed = seed])

(* the Shift key, or a tap on JUMP *)
HandleHyperspace ==
  /\ Called("handleHyperspace", NoArg)
  /\ queuedHyperspace' = TRUE
  /\ pending' = pending + 1
  /\ hist' = [hist EXCEPT !.requestedIn = game.status]
  /\ UNCHANGED <<game, res, clock>>

(* variant of the handler below without the test of the status *)
HandleVisibilityChange_noStatusTest(hidden) ==
  /\ Called("visibilitychange", [NoArg EXCEPT !.hidden = hidden])
  /\ game' = IF hidden THEN togglePause(game) ELSE game
  /\ hist' = IF hidden /\ game.status = "running"
              THEN [hist EXCEPT !.pausedAtMs = clock] ELSE hist
  /\ UNCHANGED <<res, clock, queuedHyperspace, pending>>

HandleVisibilityChange(hidden) ==
  /\ Called("visibilitychange", [NoArg EXCEPT !.hidden = hidden])
  /\ game' = IF hidden /\ game.status = "running" THEN togglePause(game) ELSE game
  /\ hist' = IF hidden /\ game.status = "running"
              THEN [hist EXCEPT !.pausedAtMs = clock] ELSE hist
  /\ UNCHANGED <<res, clock, queuedHyperspace, pending>>

NextRun ==
  \/ \E input \in Inputs, d \in Deltas, seed \in Seeds : Step(input, d, seed)
  \/ \E input \in Inputs, d \in Deltas, seed \in Seeds : StepHangs(input, d, seed)
  \/ \E d \in Deltas : StartGame(d)
  \/ TogglePause
  \/ \E sz \in Sizes : ResizeState(sz[1], sz[2])
  \/ HandleHyperspace
  \/ \E hidden \in BOOLEAN : HandleVisibilityChange(hidden)

Next ==
  \/ NextRun
  \/ \E d \in RestartDeltas, seed \in Seeds : ResetGame(d, seed)
  \/ \E d \in RestartDeltas, seed \in Seeds : ResetGameHangs(d, seed)

(* every operation of the program *)
Spec == Init /\ [][Next]_vars

(* one run: every operation but resetGame *)
SpecRun == Init /\ [][NextRun]_vars

(* ------------------------------------------------------------------ *)
(* probes                                                             *)
(* ------------------------------------------------------------------ *)
IsStep == op = "step"
RanStep == op = "step" /\ prev.status = "running"

(* every position of the snapshot's craft, projectiles and obstacles lies in
   [0, width) x [0, height), the extents being positive *)
Inside(pos, g) == 0 <= pos.x /\ pos.x < g.width /\ 0 <= pos.y /\ pos.y < g.height

InView(g) ==
  /\ g.width > 0 /\ g.height > 0
  /\ Inside(g.ship.pos, g)
  /\ \A i \in 1..Len(g.bullets) : Inside(g.bullets[i].pos, g)
  /\ \A i \in 1..Len(g.asteroids) : Inside(g.asteroids[i].pos, g)

(* what the split policy promises for a list of destroyed obstacles *)
RECURSIVE expectedTiers(_)
expectedTiers(hits) ==
  IF hits = <<>> THEN <<>>
  ELSE (IF Head(hits).size = 3 THEN <<2, 2>>
        ELSE IF Head(hits).size = 2 THEN <<1, 1>> ELSE <<>>) \o expectedTiers(Tail(hits))

RECURSIVE expectedScore(_)
expectedScore(hits) ==
  IF hits = <<>> THEN 0
  ELSE (IF Head(hits).size = 3 THEN 20 ELSE IF Head(hits).size = 2 THEN 50 ELSE 100)
       + expectedScore(Tail(hits))

(* the last n elements of a sequence *)
LastN(seq, n) == SubSeq(seq, Len(seq) - n + 1, Len(seq))

(* no two entities of the collection share an identity string *)
IdsDistinct(seq) == \A i, j \in 1..Len(seq) : i # j => seq[i].id # seq[j].id

(* the elapsed time the last step should have integrated *)
ExpectedDt == Min(Max(arg.nowMs - prev.lastFrameMs, 0), 50)

(* where an entity stands after t ms of free flight, before the wrap *)
Moved(e, t) == add(e.pos, mul(e.vel, t, 1000))

(* the heading the last step's integration gives the craft *)
IntegratedAngle ==
  normAngle(prev.ship.angle + (arg.input.rotateDir * SHIP_TURN_RATE * ExpectedDt) \div 1000)

(* the obstacle collection of the last step once its projectile collisions
   are applied: the integrated obstacles that were not hit, then the
   offspring *)
AfterHits ==
  SelectSeq(integrateAsteroids(prev.asteroids, ExpectedDt, prev),
            LAMBDA a : \A k \in 1..Len(res.obs.hits) : res.obs.hits[k].id # a.id)
    \o res.obs.spawned

(* the effects of the last step: those of prev still running, one per hit,
   and the craft's own when it exploded *)
EffectCount ==
  Len(pruneExplosions(prev.explosions, arg.nowMs)) + Len(res.obs.hits)
    + (IF res.didShipExplode THEN 1 ELSE 0)

(* ------------------------------------------------------------------ *)
(* claims                                                             *)
(* ------------------------------------------------------------------ *)

(* C1: within one run (step, startGame, togglePause, resizeState; no
   resetGame) no call increases lives, and every step call that lowers
   lives to 0 returns status gameover in that same call. *)
C1_LivesMonotone ==
  [][ /\ game'.lives <= game.lives
      /\ (op' = "step" /\ game.lives > 0 /\ game'.lives = 0) => game'.status = "gameover"
    ]_vars

C1_Witness ==
  IsStep /\ prev.lives = 1 /\ game.lives = 0 /\ game.status = "gameover"

(* C2: in every reachable state, lives = 0 holds exactly when status is
   gameover. *)
C2_LivesZeroIffGameover == (game.lives = 0) <=> (game.status = "gameover")

(* C3: step changes status only from running to gameover, and does so
   exactly when the craft collides while prev.lives <= 1; it never leaves
   gameover and never enters it from ready or paused. *)
C3_StepStatus ==
  IsStep =>
    /\ \/ game.status = prev.status
       \/ /\ prev.status = "running"
          /\ game.status = "gameover"
          /\ res.didShipExplode
          /\ prev.lives <= 1
    /\ (prev.status = "running" /\ res.didShipExplode /\ prev.lives <= 1)
         => game.status = "gameover"

C3_Witness ==
  IsStep /\ prev.status = "running" /\ game.status = "gameover" /\ prev.lives = 1

(* C4: a step on a ready, paused or gameover snapshot returns the snapshot
   with nowMs and lastFrameMs set to the given nowMs and every other field
   equal, and both event flags false. *)
C4_NotRunningNoOp ==
  (IsStep /\ prev.status \in {"ready", "paused", "gameover"}) =>
    /\ game = [prev EXCEPT !.nowMs = arg.nowMs, !.lastFrameMs = arg.nowMs]
    /\ ~res.didShipExplode
    /\ ~res.didLevelAdvance

C4_Witness ==
  /\ IsStep /\ prev.status = "paused"
  /\ arg.nowMs > prev.lastFrameMs
  /\ arg.input.isFiring
  /\ Len(prev.asteroids) > 0

(* C5: within one run, a projectile is never spawned less than 180 ms
   after the previous projectile was spawned. *)
C5_FireRate ==
  [][ (op' = "step" /\ res'.obs.fired /\ hist.fireMs >= 0)
        => arg'.nowMs - hist.fireMs >= 180 ]_vars

(* C6: a running step with nowMs < prev.ship.invincibleUntilMs reports no
   craft explosion, keeps lives and stays running, wherever the craft and
   the obstacles are. *)
C6_InvincibilityGate ==
  (RanStep /\ arg.nowMs < prev.ship.invincibleUntilMs) =>
    /\ ~res.didShipExplode
    /\ game.lives = prev.lives
    /\ game.status = "running"

C6_Witness ==
  /\ RanStep /\ arg.nowMs < prev.ship.invincibleUntilMs
  /\ \E i \in 1..Len(game.asteroids) :
       dist2(game.ship.pos, game.asteroids[i].pos)
         <= (game.ship.radius + game.asteroids[i].radius)
            * (game.ship.radius + game.asteroids[i].radius)

(* C7: in a running step the obstacles destroyed by projectiles are
   replaced, in order, by two medium obstacles for a large one, two small
   ones for a medium one and nothing for a small one; the score grows by
   20, 50 and 100 for them, and by nothing else. *)
C7_SplitConservation ==
  RanStep =>
    LET hits == res.obs.hits
        spawned == res.obs.spawned
    IN  /\ [i \in 1..Len(spawned) |-> spawned[i].size] = expectedTiers(hits)
        /\ \A i \in 1..Len(spawned) :
             spawned[i].radius = (IF spawned[i].size = 2 THEN 320 ELSE 180)
        /\ game.score = prev.score + expectedScore(hits)
        /\ ~res.didLevelAdvance =>
             /\ Len(game.asteroids) >= Len(spawned)
             /\ LastN(game.asteroids, Len(spawned)) = spawned

C7_Witness ==
  /\ RanStep /\ Len(res.obs.hits) = 1 /\ res.obs.hits[1].size = 3
  /\ Len(res.obs.spawned) = 2
  /\ game.score = prev.score + 20

(* C8: a running step that is left without obstacles once the projectile
   collisions are applied reports didLevelAdvance, raises level by one,
   holds min(4 + floor(0.75 * (prev.level + 1)), 12) obstacles, all large,
   and a craft invincible until nowMs + 1400; a running step that is left
   with an obstacle reports no level advance and keeps level. *)
C8_LevelAdvance ==
  RanStep =>
    IF res.obs.remaining = 0
    THEN /\ res.didLevelAdvance
         /\ game.level = prev.level + 1
         /\ Len(game.asteroids) =
              (IF 4 + (3 * (prev.level + 1)) \div 4 < 12
               THEN 4 + (3 * (prev.level + 1)) \div 4 ELSE 12)
         /\ \A i \in 1..Len(game.asteroids) : game.asteroids[i].size = 3
         /\ game.ship.invincibleUntilMs = arg.nowMs + 1400
    ELSE /\ ~res.didLevelAdvance
         /\ game.level = prev.level

C8_Witness ==
  /\ RanStep /\ res.didLevelAdvance
  /\ prev.level = 11 /\ game.level = 12 /\ Len(game.asteroids) = 12

(* C9: a running step on a snapshot whose craft, projectiles and obstacles
   all lie inside the viewport returns a snapshot whose craft, projectiles
   and obstacles all lie inside the viewport. *)
C9_WrapInvariant == (RanStep /\ InView(prev)) => InView(game)

(* C10: within one run no call decreases score, and a step in which the
   craft explodes still adds the score of that frame's hits. *)
C10_ScoreMonotone ==
  [][ /\ game'.score >= game.score
      /\ (op' = "step" /\ game.status = "running" /\ res'.didShipExplode)
           => game'.score = game.score + expectedScore(res'.obs.hits)
    ]_vars

C10_Witness ==
  /\ RanStep /\ res.didShipExplode
  /\ Len(res.obs.hits) > 0
  /\ game.score > prev.score

(* C12: every call of createInitialState and every level-advancing step
   returns, whatever the positive viewport extents and the craft position:
   the wave-spawning loop always finds its positions outside the exclusion
   radius, so no call is left running for ever. *)
C12_SpawnTerminates == op # "hang"

(* C13: startGame returns a running snapshot unchanged; from any other
   status it sets status to running and startedAtMs, nowMs and lastFrameMs
   to the given timestamp and changes nothing else. *)
C13_StartGame ==
  op = "startGame" =>
    IF prev.status = "running" THEN game = prev
    ELSE game = [prev EXCEPT !.status = "running", !.startedAtMs = arg.nowMs,
                             !.nowMs = arg.nowMs, !.lastFrameMs = arg.nowMs]

C13_Witness ==
  /\ op = "startGame"
  /\ prev.status = "ready"
  /\ arg.nowMs > prev.lastFrameMs
  /\ game.status = "running"

(* C14: togglePause maps running to paused and paused to running changing
   no other field, returns ready and gameover snapshots unchanged, and a
   second togglePause gives back the original snapshot. *)
C14_TogglePause ==
  op = "togglePause" =>
    /\ prev.status = "running" => game = [prev EXCEPT !.status = "paused"]
    /\ prev.status = "paused" => game = [prev EXCEPT !.status = "running"]
    /\ prev.status \in {"ready", "gameover"} => game = prev
    /\ togglePause(game) = prev

C14_Witness ==
  /\ op = "togglePause"
  /\ prev.status = "paused"
  /\ game.status = "running"

(* C15: a snapshot returned by createInitialState (directly or through
   resetGame) has status ready, 3 lives, score 0, level 1, no projectiles,
   no effects, exactly 4 obstacles all large, the craft at rest at
   (width/2, height/2), and its three timestamps equal to the given one. *)
C15_InitialState ==
  op \in {"createInitialState", "resetGame"} =>
    /\ game.status = "ready"
    /\ game.lives = 3 /\ game.score = 0 /\ game.level = 1
    /\ game.bullets = <<>> /\ game.explosions = <<>>
    /\ Len(game.asteroids) = 4
    /\ \A i \in 1..Len(game.asteroids) :
         game.asteroids[i].size = 3 /\ game.asteroids[i].radius = 52 * Unit
    /\ 2 * game.ship.pos.x = game.width /\ 2 * game.ship.pos.y = game.height
    /\ game.ship.vel = Vec(0, 0)
    /\ game.startedAtMs = clock /\ game.nowMs = clock /\ game.lastFrameMs = clock

C15_Witness ==
  /\ op = "createInitialState"
  /\ calls = 0
  /\ game.width = 400 * Unit
  /\ Len(game.asteroids) = 4

(* C16: resetGame(prev, nowMs, seed) is createInitialState(prev.width,
   prev.height, nowMs, seed): a ready snapshot with the default lives, score
   and level whatever prev's status, lives, score, level and entities. *)
C16_ResetGame ==
  op = "resetGame" =>
    /\ game = createInitialState(prev.width, prev.height, arg.nowMs, arg.seed)
    /\ game.status = "ready" /\ game.lives = 3 /\ game.score = 0 /\ game.level = 1
    /\ game.width = prev.width /\ game.height = prev.height

C16_Witness ==
  /\ op = "resetGame"
  /\ prev.status = "gameover"
  /\ prev.lives = 0
  /\ prev.score > 0

(* C17: resizeState with unchanged extents returns the snapshot unchanged;
   otherwise it changes only width, height and the craft position. *)
C17_ResizeFrame ==
  op = "resizeState" =>
    /\ (game.width = prev.width /\ game.height = prev.height) => game = prev
    /\ [game EXCEPT !.width = prev.width, !.height = prev.height,
                    !.ship.pos = prev.ship.pos] = prev

C17_Witness ==
  /\ op = "resizeState"
  /\ game.width < prev.width
  /\ game.ship.pos # prev.ship.pos
  /\ Len(prev.asteroids) > 0

(* C18: after resizeState to any positive extents the craft position lies
   in [0, width) x [0, height) of the new extents. *)
C18_ResizeInView ==
  (op = "resizeState" /\ Inside(prev.ship.pos, prev)) => Inside(game.ship.pos, game)

(* C19: a step call is given isHyperspace = TRUE only if a hyperspace
   request arrived since the previous step call, the flag is cleared when
   the frame reads it, and a set flag always stands for a request not yet
   delivered. *)
C19_HyperspaceOnce ==
  [][ /\ (op' = "step" /\ calls' > calls) =>
           /\ arg'.input.isHyperspace => pending >= 1
           /\ ~queuedHyperspace'
      /\ queuedHyperspace' => pending' >= 1 ]_vars

C19_Witness ==
  /\ op = "step"
  /\ arg.input.isHyperspace
  /\ res.obs.jumped
  /\ ~queuedHyperspace

(* C20: after the visibility handler runs with the document hidden the
   status is not running: a running game becomes paused with every other
   field unchanged; in every other case (another status, or the document
   becoming visible) the snapshot is left unchanged. *)
C20_AutoPause ==
  op = "visibilitychange" =>
    /\ arg.hidden => game.status # "running"
    /\ (arg.hidden /\ prev.status = "running") => game = [prev EXCEPT !.status = "paused"]
    /\ ~(arg.hidden /\ prev.status = "running") => game = prev

C20_Witness ==
  /\ op = "visibilitychange"
  /\ arg.hidden
  /\ prev.status = "running"
  /\ game.status = "paused"

(* C21: in every snapshot no two live obstacles share an identity string
   and no two live projectiles share an identity string. *)
C21_UniqueIds == IdsDistinct(game.asteroids) /\ IdsDistinct(game.bullets)

(* C22: a running step with all-false input on a craft at rest leaves the
   craft's position, velocity and heading unchanged and the status running
   unless the craft collides, and, no obstacle being hit, gives every
   obstacle the position wrap(position + velocity * dt) with its velocity,
   spin, radius, tier, silhouette and identity unchanged. *)
C22_IdleStep ==
  (RanStep /\ arg.input = EMPTY_INPUT /\ prev.ship.vel = Vec(0, 0)) =>
    /\ ~res.didShipExplode =>
         /\ game.ship.pos = prev.ship.pos
         /\ game.ship.vel = prev.ship.vel
         /\ normAngle(game.ship.angle) = normAngle(prev.ship.angle)
         /\ game.status = "running"
    /\ res.obs.hits = <<>> =>
         /\ Len(game.asteroids) = Len(prev.asteroids)
         /\ \A i \in 1..Len(game.asteroids) :
              game.asteroids[i] =
                [prev.asteroids[i] EXCEPT
                   !.pos = wrapPosition(Moved(prev.asteroids[i], ExpectedDt),
                                        prev.width, prev.height),
                   !.angle = game.asteroids[i].angle]

(* C23: a running step in which the craft collides with prev.lives >= 2
   returns lives = prev.lives - 1, status running, the craft at rest at the
   viewport centre with the heading integrated in this frame and
   invincibleUntilMs = nowMs + 1400, no projectiles, the level unchanged and
   the obstacles as they stood after this frame's projectile collisions. *)
C23_Respawn ==
  (RanStep /\ res.didShipExplode /\ prev.lives >= 2) =>
    /\ game.lives = prev.lives - 1
    /\ game.status = "running"
    /\ 2 * game.ship.pos.x = game.width /\ 2 * game.ship.pos.y = game.height
    /\ game.ship.vel = Vec(0, 0)
    /\ game.ship.angle = IntegratedAngle
    /\ game.ship.invincibleUntilMs = arg.nowMs + 1400
    /\ game.bullets = <<>>
    /\ game.level = prev.level
    /\ game.asteroids = AfterHits

C23_Witness ==
  /\ RanStep /\ res.didShipExplode
  /\ prev.lives = 2 /\ game.lives = 1
  /\ Len(res.obs.hits) > 0
  /\ Len(game.asteroids) >= 2
  /\ \E i \in 1..Len(game.asteroids) :
       distLeq(game.ship.pos, game.asteroids[i].pos,
               SHIP_RADIUS + game.asteroids[i].radius)

(* C24: a running step in which the craft collides with prev.lives <= 1
   returns status gameover, lives 0, no projectiles, the obstacles and the
   effects of this frame (the craft's own explosion last), the level
   unchanged, didShipExplode = TRUE and didLevelAdvance = FALSE. *)
C24_GameOver ==
  (RanStep /\ res.didShipExplode /\ prev.lives <= 1) =>
    /\ game.status = "gameover"
    /\ game.lives = 0
    /\ game.bullets = <<>>
    /\ game.asteroids = AfterHits
    /\ Len(game.explosions) = EffectCount
    /\ game.explosions[Len(game.explosions)].pos = game.ship.pos
    /\ game.explosions[Len(game.explosions)].bornAtMs = arg.nowMs
    /\ game.explosions[Len(game.explosions)].durationMs = 520
    /\ game.level = prev.level
    /\ ~res.didLevelAdvance

C24_Witness ==
  /\ RanStep /\ res.didShipExplode
  /\ prev.lives = 1
  /\ game.status = "gameover"
  /\ Len(game.asteroids) > 0
  /\ Len(game.explosions) > 0

(* the outcome of a running step that carried a jump request: an accepted
   request puts the craft inside the viewport with the velocity and heading
   of this frame's integration, gives it the invincibility window and
   excludes a collision of the craft in this frame; a request made while
   the craft is invincible changes nothing.  The window is 520 ms, or,
   with levelWindow, the 1400 ms of a level cleared in the same frame. *)
HyperspaceRule(levelWindow) ==
  (RanStep /\ arg.input.isHyperspace) =>
    IF arg.nowMs >= prev.ship.invincibleUntilMs
    THEN Let1(integrateShip(prev.ship, arg.input, ExpectedDt, prev), LAMBDA moved :
           /\ res.obs.jumped
           /\ Inside(game.ship.pos, game)
           /\ game.ship.vel = moved.vel
           /\ game.ship.angle = moved.angle
           /\ game.ship.invincibleUntilMs =
                arg.nowMs + (IF levelWindow /\ res.didLevelAdvance
                             THEN 1400 ELSE 520)
           /\ ~res.didShipExplode)
    ELSE Let1(step(prev, [arg.input EXCEPT !.isHyperspace = FALSE],
                   arg.nowMs, arg.seed), LAMBDA r :
           /\ ~res.obs.jumped
           /\ game = r.next
           /\ res.didShipExplode = r.didShipExplode
           /\ res.didLevelAdvance = r.didLevelAdvance)

(* C25 as written: a jump requested while nowMs >= invincibleUntilMs puts
   the craft inside the viewport, keeps the integrated velocity and
   heading, sets invincibleUntilMs = nowMs + 520 and excludes a collision
   of the craft in that frame; requested earlier, it has no effect. *)
C25_HyperspaceOriginal == HyperspaceRule(FALSE)

(* C25 amended: as written, except that invincibleUntilMs = nowMs + 1400
   when the same frame also clears the level. *)
C25_Hyperspace == HyperspaceRule(TRUE)

C25_Witness ==
  /\ RanStep /\ arg.input.isHyperspace /\ res.obs.jumped
  /\ ~res.didLevelAdvance /\ ~res.didShipExplode
  /\ game.ship.invincibleUntilMs = arg.nowMs + 520
  /\ game.ship.pos # prev.ship.pos
  /\ \E i \in 1..Len(game.asteroids) : shipHits(game.ship, game.asteroids[i])

(* C26: in one frame each obstacle is hit at most once: every obstacle that
   leaves the collection is one hit, scored once, split once and given one
   explosion. *)
C26_HitOnce ==
  RanStep =>
    /\ Len(prev.asteroids) + Len(res.obs.spawned) - res.obs.remaining
         = Len(res.obs.hits)
    /\ game.score - prev.score = expectedScore(res.obs.hits)
    /\ Len(res.obs.spawned) = Len(expectedTiers(res.obs.hits))
    /\ Len(game.explosions) = EffectCount

(* C27: in one frame each projectile accounts for at most one hit. *)
C27_BulletOnce ==
  RanStep =>
    \A i, j \in 1..Len(res.obs.by) : i # j => res.obs.by[i] # res.obs.by[j]

(* C28: no step returns didShipExplode and didLevelAdvance both TRUE, and
   a frame in which the craft collides leaves the level and the obstacle
   collection as they stood after the projectile collisions, even when
   those emptied it. *)
C28_ExplodeOrAdvance ==
  IsStep =>
    /\ ~(res.didShipExplode /\ res.didLevelAdvance)
    /\ res.didShipExplode =>
         /\ game.level = prev.level
         /\ game.asteroids = AfterHits
         /\ Len(game.asteroids) = res.obs.remaining

C28_Witness ==
  /\ RanStep /\ res.didShipExplode /\ ~res.didLevelAdvance
  /\ Len(res.obs.hits) > 0
  /\ game.level = prev.level

(* C29: the elapsed time a running step integrates is
   min(max(nowMs - lastFrameMs, 0), 50) ms: obstacles, projectiles and the
   craft advance by their velocity times that much (modulo the wrap), so
   nothing moves when nowMs <= lastFrameMs and nothing advances by more
   than its speed times 0.05 s. *)
C29_ElapsedClamp ==
  RanStep =>
    /\ res.obs.dtMs = ExpectedDt
    /\ res.obs.dtMs >= 0 /\ res.obs.dtMs <= 50
    /\ (arg.nowMs <= prev.lastFrameMs) => res.obs.dtMs = 0
    /\ (~res.obs.jumped /\ ~res.didShipExplode) =>
         game.ship.pos = wrapPosition(Moved([pos |-> prev.ship.pos,
                                             vel |-> game.ship.vel],
                                            ExpectedDt),
                                      prev.width, prev.height)
    /\ (res.obs.hits = <<>>) =>
         \A i \in 1..Len(prev.asteroids) :
           game.asteroids[i].pos =
             wrapPosition(Moved(prev.asteroids[i], ExpectedDt),
                          prev.width, prev.height)
    /\ (res.obs.hits = <<>> /\ ~res.didShipExplode) =>
         \A i \in 1..Len(game.bullets) :
           \/ game.bullets[i].bornAtMs = arg.nowMs
           \/ \E j \in 1..Len(prev.bullets) :
                /\ game.bullets[i].id = prev.bullets[j].id
                /\ game.bullets[i].pos =
                     wrapPosition(Moved(prev.bullets[j], ExpectedDt),
                                  prev.width, prev.height)

C29_Witness ==
  /\ RanStep
  /\ arg.nowMs < prev.lastFrameMs
  /\ res.obs.dtMs = 0
  /\ Len(game.asteroids) > 0
  /\ game.asteroids[1].vel # Vec(0, 0)
  /\ game.asteroids[1].pos = prev.asteroids[1].pos

(* C30: time spent paused is never integrated: the first running step after
   a resume integrates no more than the time elapsed since the resume. *)
C30_PauseExcluded ==
  [][(op' = "step" /\ calls' > calls /\ game.status = "running"
        /\ hist.resumedAtMs >= 0)
       => res'.obs.dtMs <= arg'.nowMs - hist.resumedAtMs]_vars

(* C31: a pause does not consume the invincibility window: with r ms of
   invincibility left when the game was paused, the craft does not explode
   within the first r ms of running time after the resume. *)
C31_PauseKeepsWindow ==
  [][(op' = "step" /\ calls' > calls /\ game.status = "running"
        /\ hist.resumedAtMs >= 0 /\ hist.pausedAtMs >= 0
        /\ arg'.nowMs - hist.resumedAtMs
             < game.ship.invincibleUntilMs - hist.pausedAtMs)
       => ~res'.didShipExplode]_vars

(* C32: a jump requested while the game is ready, paused or over never
   teleports the craft once the game is running. *)
C32_StaleRequest ==
  [][(op' = "step" /\ calls' > calls /\ game.status = "running"
        /\ queuedHyperspace
        /\ hist.requestedIn \in {"ready", "paused", "gameover"})
       => ~res'.obs.jumped]_vars

(* every asteroid at Euclidean distance >= 180 px from the point *)
AwayFrom(asteroids, at) ==
  \A i \in 1..Len(asteroids) :
    dist2(asteroids[i].pos, at) >= (180 * Unit) * (180 * Unit)

(* C33: every obstacle of a wave made by createInitialState or by a level
   advance lies at distance >= 180 from the craft's position at the time
   of spawning (after the frame's integration and jump, for an advance). *)
C33_SpawnClear ==
  /\ op \in {"createInitialState", "resetGame"} =>
       AwayFrom(game.asteroids, game.ship.pos)
  /\ (RanStep /\ res.didLevelAdvance) =>
       AwayFrom(game.asteroids, game.ship.pos)

C33_Witness ==
  /\ RanStep /\ res.didLevelAdvance /\ res.obs.jumped
  /\ game.ship.pos # prev.ship.pos
  /\ Len(game.asteroids) = waveCount(game.level)
  /\ \E i \in 1..Len(game.asteroids) :
       dist2(game.asteroids[i].pos, prev.ship.pos) < (180 * Unit) * (180 * Unit)

(* C34: effects never affect gameplay: a running step on the snapshot
   without its effects returns the same status, lives, score, level, craft,
   projectiles, obstacles and event flags. *)
C34_EffectsCosmetic ==
  (RanStep /\ prev.explosions # <<>>) =>
    Let1(step([prev EXCEPT !.explosions = <<>>], arg.input, arg.nowMs, arg.seed),
         LAMBDA r :
      /\ r.next.status = game.status
      /\ r.next.lives = game.lives
      /\ r.next.score = game.score
      /\ r.next.level = game.level
      /\ r.next.ship = game.ship
      /\ r.next.bullets = game.bullets
      /\ r.next.asteroids = game.asteroids
      /\ r.didShipExplode = res.didShipExplode
      /\ r.didLevelAdvance = res.didLevelAdvance)

C34_Witness ==
  /\ RanStep /\ prev.explosions # <<>>
  /\ Len(pruneExplosions(prev.explosions, arg.nowMs)) > 0
  /\ res.didShipExplode
  /\ Len(res.obs.hits) > 0

(* the projectiles spawned by the last step, still in flight or spent *)
NewBullets ==
  SelectSeq(game.bullets \o res.obs.by, LAMBDA b : b.bornAtMs = arg.nowMs)

(* C35: when a jump and a shot are both accepted in one running step, the
   jump comes first: the craft stands where the first two draws put it,
   and the projectile spawns at the nose of that position with the identity
   of the third draw. *)
C35_JumpThenFire ==
  (RanStep /\ res.obs.jumped /\ res.obs.fired) =>
    /\ game.ship.pos =
         Vec((rngValue(createRng(arg.seed)) * prev.width) \div RngMod,
             (rngValue(rngSkip(createRng(arg.seed), 1)) * prev.height) \div RngMod)
    /\ Len(NewBullets) >= 1
    /\ \A i \in 1..Len(NewBullets) :
         /\ NewBullets[i].id = id(rngSkip(createRng(arg.seed), 2))
         /\ NewBullets[i].pos =
              add(game.ship.pos,
                  mul(fromAngle(game.ship.angle), SHIP_RADIUS + MUZZLE_OFFSET, Milli))

C35_Witness ==
  /\ RanStep /\ res.obs.jumped /\ res.obs.fired
  /\ game.ship.pos # prev.ship.pos
  /\ Len(game.bullets) >= 1
  /\ game.bullets[Len(game.bullets)].bornAtMs = arg.nowMs

(* C36: the obstacle collection of every reachable snapshot is non-empty:
   a step that destroys the last obstacle spawns the next wave in the same
   call, and the craft explodes only while an obstacle remains. *)
C36_NeverEmpty ==
  /\ op # "hang" => Len(game.asteroids) > 0
  /\ (RanStep /\ res.obs.remaining = 0) => res.didLevelAdvance
  /\ (RanStep /\ res.didShipExplode) => res.obs.remaining > 0

C36_Witness ==
  /\ RanStep /\ res.obs.remaining = 0 /\ res.didLevelAdvance
  /\ Len(res.obs.hits) > 0
  /\ Len(game.asteroids) = waveCount(prev.level + 1)

(* the score and the value still on screen add up to 520 per large
   asteroid of the waves so far *)
Conserved(g) ==
  /\ g.score + sumValues(g.asteroids) = 520 * wavesUpTo(g.level)
  /\ g.score % 10 = 0

(* C37: while obstacle identities are distinct, score + the sum of the
   values of the live obstacles (520, 250, 100 by tier) equals 520 times
   the number of large obstacles of the waves of levels 1 to level, and
   score is a multiple of 10. *)
C37_ScoreConservation ==
  /\ op # "hang" => Conserved(game)
  /\ [][(IdsDistinct(game.asteroids) /\ Conserved(game) /\ op' # "hang")
          => Conserved(game')]_vars

C37_Witness ==
  /\ RanStep /\ IdsDistinct(prev.asteroids)
  /\ res.didLevelAdvance
  /\ game.level = 2
  /\ game.score = 520 * wavesUpTo(1)
  /\ Conserved(game)

(* C38: every reachable snapshot holds at most 5 live projectiles. *)
C38_BulletBound == Len(game.bullets) <= 5

C38_Witness ==
  /\ RanStep /\ res.obs.fired
  /\ Len(prev.bullets) = 5
  /\ Len(game.bullets) = 5
  /\ IdsDistinct(game.bullets)

(* C39: within one run two craft explosions are never less than 1400 ms
   apart. *)
C39_ExplosionGap ==
  [][(op' = "step" /\ calls' > calls /\ res'.didShipExplode
        /\ hist.explodedAtMs >= 0)
       => arg'.nowMs - hist.explodedAtMs >= 1400]_vars

(* C40: a running step that does not end in a craft explosion returns only
   projectiles younger than 900 ms, and every running step returns only
   effects younger than their duration. *)
C40_NothingStale ==
  RanStep =>
    /\ ~res.didShipExplode =>
         \A i \in 1..Len(game.bullets) :
           arg.nowMs - game.bullets[i].bornAtMs < 900
    /\ \A i \in 1..Len(game.explosions) :
         arg.nowMs - game.explosions[i].bornAtMs < game.explosions[i].durationMs

C40_Witness ==
  /\ RanStep /\ ~res.didShipExplode
  /\ \E i \in 1..Len(prev.bullets) : arg.nowMs - prev.bullets[i].bornAtMs >= 900
  /\ \E i \in 1..Len(prev.explosions) :
       arg.nowMs - prev.explosions[i].bornAtMs >= prev.explosions[i].durationMs
  /\ Len(game.bullets) >= 4

====
